---------------------------- MODULE Spec2Model ----------------------------
(***************************************************************************)
(* Model of matrix-health (src/main.go): the delegation resolver, the      *)
(* reachability prober, the domain extractor and the room sweep loop.      *)
(*                                                                         *)
(* Go strings are modelled as sequences of one-character strings, so that  *)
(* strings.Split, strings.Trim and fmt.Sprintf are computed character by   *)
(* character.  Network peers (HTTP servers, DNS, the homeserver) are the   *)
(* environment: each call draws its outcome from a finite set.             *)
(***************************************************************************)
EXTENDS Integers, Sequences, FiniteSets, TLC

VARIABLES
    pc,             \* position of runServerCheckLoop
    rooms,          \* joinedRooms.JoinedRooms still to be ranged over
    roomID,         \* loop variable of the room loop
    roomDescription,\* [alias, title, id] of the room being swept
    joined,         \* resp.Joined keys still to be ranged over
    serverStatus,   \* full status list of the room being swept
    failedServers,  \* failed list of the room being swept
    sent,           \* texts handed to client.SendText in this cycle
    console,        \* the line printed last on standard output
    ops,            \* which calls were made for which room in this cycle
    lastCheck,      \* the member check made by the latest loop body
    sched,          \* the sleeps and joined-rooms fetches of the loop so far
    trace,          \* the errors met and the lines printed by the latest step
    call,           \* a single function call under test: argument and result
    sync            \* the sync loop and event handler of the sync-based main

vars == <<pc, rooms, roomID, roomDescription, joined, serverStatus,
          failedServers, sent, console, ops, lastCheck, sched, trace, call, sync>>

loopVars == <<pc, rooms, roomID, roomDescription, joined, serverStatus,
              failedServers, sent, console, ops, lastCheck, sched, trace>>

-----------------------------------------------------------------------------
(* Bounds of the model *)

\* longest user identifier that is enumerated
MaxLen == 4
\* most SRV records in one answer
MaxSrv == 2
\* most failures of client.JoinedRooms in a row
MaxFails == 2
\* most failures of client.Sync in a row
MaxSyncFails == 2

-----------------------------------------------------------------------------
(* Go strings *)

EmptyStr == <<>>

SeqsUpTo(S, n) == UNION {[1..k -> S] : k \in 0..n}

\* strings.Index(s, c) for a one-character c, 1-based; 0 when absent
IndexOf(s, c) ==
    IF \E i \in 1..Len(s) : s[i] = c
    THEN CHOOSE i \in 1..Len(s) : s[i] = c /\ \A j \in 1..(i-1) : s[j] # c
    ELSE 0

RECURSIVE Split(_, _)
\* strings.Split(s, c): every occurrence of c separates two parts
Split(s, c) ==
    LET i == IndexOf(s, c) IN
    IF i = 0 THEN <<s>>
    ELSE <<SubSeq(s, 1, i-1)>> \o Split(SubSeq(s, i+1, Len(s)), c)

RECURSIVE TrimLeft(_, _)
TrimLeft(s, c) ==
    IF Len(s) > 0 /\ s[1] = c THEN TrimLeft(Tail(s), c) ELSE s

RECURSIVE TrimRight(_, _)
TrimRight(s, c) ==
    IF Len(s) > 0 /\ s[Len(s)] = c THEN TrimRight(SubSeq(s, 1, Len(s)-1), c) ELSE s

\* strings.Trim(s, c): all leading and all trailing c removed
Trim(s, c) == TrimRight(TrimLeft(s, c), c)

Digit(n) == <<"0", "1", "2", "3", "4", "5", "6", "7", "8", "9">>[n + 1]

RECURSIVE Itoa(_)
\* the %d verb of fmt.Sprintf for a non-negative integer
Itoa(n) == IF n < 10 THEN <<Digit(n)>> ELSE Itoa(n \div 10) \o <<Digit(n % 10)>>


-----------------------------------------------------------------------------
(* JSON bodies and encoding/json *)

\* A response body as json.Decoder sees it: the kind of the first JSON value of
\* the stream ("empty": no value at all, "malformed": a syntax error in it),
\* for an object the value of its "m.server" member (at most one member
\* matches the key), and whether more bytes follow the first value.
\* kind is one of "object", "array", "string", "number", "bool", "null",
\* "malformed", "empty".
NoMember == [t |-> "absent", s |-> EmptyStr]

\* values of the "m.server" member
MServerStrings == {EmptyStr, <<"m">>, <<"m", ":", "4">>, <<".", "m", ".">>}

Members ==
    {NoMember, [t |-> "null", s |-> EmptyStr], [t |-> "number", s |-> EmptyStr]}
        \cup {[t |-> "string", s |-> x] : x \in MServerStrings}

Bodies ==
    {[kind |-> "object", mserver |-> m, trailing |-> tr] :
        m \in Members, tr \in BOOLEAN}
        \cup {[kind |-> k, mserver |-> NoMember, trailing |-> FALSE] :
                k \in {"array", "string", "number", "bool", "null",
                       "malformed", "empty"}}
        \cup {[kind |-> "null", mserver |-> NoMember, trailing |-> TRUE]}

\* json.NewDecoder(body).Decode(&result) with result struct{Server string
\* `json:"m.server"`}: only the first value of the stream is read; null leaves
\* the struct untouched; a non-object value or a non-string member is an
\* UnmarshalTypeError.
DecodeStruct(body) ==
    CASE body.kind \in {"malformed", "empty"} -> [err |-> TRUE, Server |-> EmptyStr]
      [] body.kind = "null" -> [err |-> FALSE, Server |-> EmptyStr]
      [] body.kind \in {"array", "string", "number", "bool"} ->
            [err |-> TRUE, Server |-> EmptyStr]
      [] body.kind = "object" ->
            CASE body.mserver.t = "string" -> [err |-> FALSE, Server |-> body.mserver.s]
              [] body.mserver.t \in {"absent", "null"} ->
                    [err |-> FALSE, Server |-> EmptyStr]
              [] OTHER -> [err |-> TRUE, Server |-> EmptyStr]

\* Decode(&result) with result map[string]interface{}: TRUE iff err != nil.
\* An object of any shape and the literal null decode without error.
DecodeMap(body) == body.kind \notin {"object", "null"}

-----------------------------------------------------------------------------
(* The network as the program sees it *)

StatusOK == 200

\* status codes of a well-known answer: 200, another 2xx, and a failure
Statuses == {StatusOK, 203, 404}

WkErr == [err |-> TRUE, status |-> 0, body |-> [kind |-> "empty",
          mserver |-> NoMember, trailing |-> FALSE]]

\* outcomes of http.Get(url) at line 89
WkResponses ==
    {WkErr} \cup {[err |-> FALSE, status |-> st, body |-> b] :
                    st \in Statuses, b \in Bodies}

\* net.LookupSRV returns only targets that are domain names (it drops the
\* others and reports an error): no empty label, so no leading dot and no two
\* dots in a row; the root "." is allowed.
IsDomainName(s) ==
    \/ s = <<".">>
    \/ /\ Len(s) > 0
       /\ s[1] # "."
       /\ \A i \in 1..(Len(s)-1) : ~(s[i] = "." /\ s[i+1] = ".")

SrvTargets ==
    {s \in {<<".">>, <<"h">>, <<"h", ".">>, <<"h", ".", "h", ".">>} : IsDomainName(s)}

SrvPorts == {443, 8448}

SrvRecords == [Target : SrvTargets, Port : SrvPorts]

\* outcomes of net.LookupSRV at line 105: an error (with or without records
\* left after filtering) or an answer of zero or more records
SrvResponses ==
    [err : BOOLEAN, records : UNION {[1..k -> SrvRecords] : k \in 0..MaxSrv}]

ProbeTimeout == 5

\* outcomes of client.Get(url) at line 252: the connection is refused, or an
\* answer arrives after some seconds with some body
ProbeResponses ==
    {[conn |-> "refused", seconds |-> 0,
      body |-> [kind |-> "empty", mserver |-> NoMember, trailing |-> FALSE]]}
        \cup {[conn |-> "ok", seconds |-> t, body |-> b] :
                t \in {ProbeTimeout - 1, ProbeTimeout + 1},
                b \in {x \in Bodies : x.mserver = NoMember}}


-----------------------------------------------------------------------------
(* The functions of src/main.go *)

Nil == "nil"

\* the domains handed to the resolver
Domains == {EmptyStr, <<"g">>, <<"b", ":", "8">>}

\* fmt.Sprintf("%s:8448", server)
DefaultTarget(server) == server \o <<":", "8", "4", "4", "8">>

\* the target taken as DNS gives it, trailing dot included
SrvTargetUntrimmed(srv) == srv.Target \o <<":">> \o Itoa(srv.Port)

\* fmt.Sprintf("%s:%d", strings.Trim(srv.Target, "."), srv.Port)
SrvTarget(srv) == Trim(srv.Target, ".") \o <<":">> \o Itoa(srv.Port)

\* lines 89-102: TRUE iff the well-known step returns result.Server
WellKnownYields(wk) ==
    /\ ~wk.err
    /\ wk.status = StatusOK
    /\ ~DecodeStruct(wk.body).err
    /\ DecodeStruct(wk.body).Server # EmptyStr

\* lines 105-109: TRUE iff the SRV step returns a target
SrvYields(srv) == ~srv.err /\ Len(srv.records) > 0

\* a resolver that asks SRV before well-known
resolveSrvFirst(server, wk, srv) ==
    IF SrvYields(srv)
    THEN [target |-> SrvTarget(srv.records[1]), err |-> Nil,
          calls |-> <<"srv">>, via |-> "srv"]
    ELSE IF WellKnownYields(wk)
    THEN [target |-> DecodeStruct(wk.body).Server, err |-> Nil,
          calls |-> <<"srv", "wellknown">>, via |-> "wellknown"]
    ELSE [target |-> DefaultTarget(server), err |-> Nil,
          calls |-> <<"srv", "wellknown">>, via |-> "default"]

\* a resolver that gives up with an error instead of the default target
resolveFailsWithoutRecords(server, wk, srv) ==
    IF WellKnownYields(wk)
    THEN [target |-> DecodeStruct(wk.body).Server, err |-> Nil,
          calls |-> <<"wellknown">>, via |-> "wellknown"]
    ELSE IF SrvYields(srv)
    THEN [target |-> SrvTarget(srv.records[1]), err |-> Nil,
          calls |-> <<"wellknown", "srv">>, via |-> "srv"]
    ELSE [target |-> EmptyStr, err |-> "no SRV records",
          calls |-> <<"wellknown", "srv">>, via |-> "error"]

\* resolveMatrixServer(server) under the outcomes wk of http.Get and srv of
\* net.LookupSRV.  calls lists the lookups the call performs, in order; via is
\* the return statement taken.
resolveMatrixServer(server, wk, srv) ==
    IF WellKnownYields(wk)
    THEN [target |-> DecodeStruct(wk.body).Server, err |-> Nil,
          calls |-> <<"wellknown">>, via |-> "wellknown"]
    ELSE IF SrvYields(srv)
    THEN [target |-> SrvTarget(srv.records[1]), err |-> Nil,
          calls |-> <<"wellknown", "srv">>, via |-> "srv"]
    ELSE [target |-> DefaultTarget(server), err |-> Nil,
          calls |-> <<"wellknown", "srv">>, via |-> "default"]

\* checkServerOnline(server) under the outcome pr of client.Get: the client's
\* Timeout of 5 seconds bounds the whole exchange
checkServerOnline(server, pr) ==
    IF pr.conn # "ok" \/ pr.seconds >= ProbeTimeout THEN FALSE
    ELSE IF DecodeMap(pr.body) THEN FALSE
    ELSE TRUE

\* lines 254 and 263: what checkServerOnline prints when it returns false
ProbeComplaint(pr) ==
    IF pr.conn # "ok" \/ pr.seconds >= ProbeTimeout
    THEN "Failed to reach server"
    ELSE "Invalid JSON response from server"

StatusOKText == "OK"
StatusUnreachable == "Failed (Unreachable)"
StatusDelegation == "Failed (Delegation Failed)"

\* a prefix test that every status passes
HasPrefixAnything(status) == TRUE

\* strings.HasPrefix(status, "Failed")
HasPrefixFailed(status) == status \in {StatusUnreachable, StatusDelegation}

\* a check that probes a second time when the first probe fails
checkServerRetries(server, wk, srv, pr) ==
    LET r == resolveMatrixServer(server, wk, srv) IN
    IF checkServerOnline(r.target, pr)
    THEN [status |-> StatusOKText, resolve |-> r, probed |-> <<r.target>>,
          steps |-> <<"resolve", "probe">>]
    ELSE [status |-> StatusUnreachable, resolve |-> r,
          probed |-> <<r.target, r.target>>,
          steps |-> <<"resolve", "probe", "probe">>]

\* checkServer(ctx, client, server): the status, with the resolver's result,
\* the target handed to the prober (probed is <<>> when no probe is made) and
\* the calls made, in order
checkServer(server, wk, srv, pr) ==
    LET r == resolveMatrixServer(server, wk, srv) IN
    IF r.err # Nil
    THEN [status |-> StatusDelegation, resolve |-> r, probed |-> <<>>,
          steps |-> <<"resolve">>]
    ELSE IF checkServerOnline(r.target, pr)
    THEN [status |-> StatusOKText, resolve |-> r, probed |-> <<r.target>>,
          steps |-> <<"resolve", "probe">>]
    ELSE [status |-> StatusUnreachable, resolve |-> r, probed |-> <<r.target>>,
          steps |-> <<"resolve", "probe">>]

\* extractDomain(userID)
extractDomain(userID) ==
    LET parts == Split(userID, ":") IN
    IF Len(parts) > 1 THEN parts[2] ELSE EmptyStr


-----------------------------------------------------------------------------
(* The homeserver as runServerCheckLoop sees it *)

\* config.LogRoom
LogRoom == "!log"

\* answers of client.JoinedRooms; the log room may be among the joined rooms
RoomLists ==
    {<<>>, <<LogRoom>>, <<"!a">>, <<LogRoom, "!a">>, <<"!a", LogRoom, "!b">>}

\* keys of resp.Joined: two users of one domain, a user of a second domain
\* whose server name carries a port, and an identifier without ":"
UserIDs ==
    {<<"u", ":", "g">>, <<"v", ":", "g">>, <<"w", ":", "b", ":", "8">>, <<"n">>}

\* answers of client.JoinedMembers
MemberSets ==
    {{}, {<<"n">>}, {<<"u", ":", "g">>, <<"v", ":", "g">>},
     {<<"u", ":", "g">>, <<"w", ":", "b", ":", "8">>},
     {<<"n">>, <<"w", ":", "b", ":", "8">>}}

\* outcomes of one client.StateEvent call: an error, an event whose field is
\* empty, or an event with a value
StateEventOutcomes == {"error", "empty", "value"}

\* well-known outcomes a sweep meets.  http.Get fails before any request
\* when the URL has no host, which is the case for the empty domain.
SweepWk(server) ==
    IF server = EmptyStr THEN {WkErr}
    ELSE {WkErr,
          [err |-> FALSE, status |-> StatusOK,
           body |-> [kind |-> "object",
                     mserver |-> [t |-> "string", s |-> <<"m">>],
                     trailing |-> FALSE]]}

\* SRV outcomes a sweep meets
SweepSrv ==
    {[err |-> TRUE, records |-> <<>>],
     [err |-> FALSE, records |-> <<[Target |-> <<"h", ".">>, Port |-> 443]>>]}

\* probe outcomes a sweep meets
SweepProbe ==
    {pr \in ProbeResponses :
        /\ pr.body.kind \in {"object", "empty", "malformed"}
        /\ ~pr.body.trailing
        /\ (pr.conn = "ok" /\ pr.seconds < ProbeTimeout => pr.body.kind # "empty")
        /\ (pr.seconds > ProbeTimeout => pr.body.kind = "object")}

\* no SRV answer
NoSrv == [err |-> TRUE, records |-> <<>>]

\* no probe was made
NoProbe == [conn |-> "none", seconds |-> 0,
            body |-> [kind |-> "empty", mserver |-> NoMember, trailing |-> FALSE]]

NoCheck == [room |-> "", user |-> EmptyStr, server |-> EmptyStr, status |-> "",
            calls |-> <<>>, target |-> EmptyStr, probed |-> <<>>,
            wk |-> WkErr, srv |-> NoSrv, pr |-> NoProbe]

NoDescription == [alias |-> "", title |-> "", id |-> ""]

NoCall == [fn |-> "none", arg |-> <<>>, done |-> FALSE, ret |-> <<>>]

\* sched before the first fetch: no fetch made, no sleep since, no failure
NoSched == [started |-> FALSE, waits |-> 0, fails |-> 0]

\* the errors a step met and the lines it printed, in order
Trace(errs, lines) == [errs |-> errs, lines |-> lines]

NoTrace == Trace({}, <<>>)

\* a state key that is absent (a nil *string) or present
NoStateKey == [present |-> FALSE, key |-> <<>>]

StateKey(k) == [present |-> TRUE, key |-> k]

NoEvent == [sender |-> <<>>, stateKey |-> NoStateKey, membership |-> "none"]

\* the sync-based main is not running
NoSync == [pc |-> "none", fails |-> 0, last |-> "none", slept |-> 0,
           event |-> NoEvent, called |-> FALSE]

\* a line of standard output: what it says, about which room, with which
\* status lines
Line(kind, desc, lines) == [kind |-> kind, room |-> desc, lines |-> lines]

\* fmt.Sprintf("%s - %s", server, status)
StatusLine(server, status) == [server |-> server, status |-> status]

-----------------------------------------------------------------------------
(* runServerCheckLoop *)

Init ==
    /\ pc = "fetchRooms"
    /\ rooms = <<>>
    /\ roomID = ""
    /\ roomDescription = NoDescription
    /\ joined = {}
    /\ serverStatus = <<>>
    /\ failedServers = <<>>
    /\ sent = <<>>
    /\ console = Line("Starting", NoDescription, <<>>)
    /\ ops = {}
    /\ lastCheck = NoCheck
    /\ sched = NoSched
    /\ trace = NoTrace
    /\ call = NoCall
    /\ sync = NoSync

\* a failed fetch of the joined rooms that is retried at once, without sleep
JoinedRoomsFailsNoSleep ==
    /\ pc = "fetchRooms"
    /\ sched.fails < MaxFails
    /\ pc' = "fetchRooms"
    /\ rooms' = <<>>
    /\ sent' = <<>>
    /\ console' = Line("Failed to fetch joined rooms", NoDescription, <<>>)
    /\ ops' = {}
    /\ lastCheck' = NoCheck
    /\ sched' = [started |-> TRUE, waits |-> 0, fails |-> sched.fails + 1]
    /\ trace' = Trace({"joined rooms"},
                      <<"Checking server statuses", "Failed to fetch joined rooms">>)
    /\ UNCHANGED <<roomID, roomDescription, joined, serverStatus, failedServers,
                   call, sync>>

\* lines 118-127: a cycle starts with client.JoinedRooms; on an error the
\* loop sleeps and starts over.  The records sent, ops and lastCheck describe
\* one cycle and start empty with it.
JoinedRoomsFails ==
    /\ pc = "fetchRooms"
    /\ sched.fails < MaxFails
    /\ pc' = "sleep"
    /\ rooms' = <<>>
    /\ sent' = <<>>
    /\ console' = Line("Failed to fetch joined rooms", NoDescription, <<>>)
    /\ ops' = {}
    /\ lastCheck' = NoCheck
    /\ sched' = [started |-> TRUE, waits |-> 0, fails |-> sched.fails + 1]
    /\ trace' = Trace({"joined rooms"},
                      <<"Checking server statuses", "Failed to fetch joined rooms">>)
    /\ UNCHANGED <<roomID, roomDescription, joined, serverStatus, failedServers,
                   call, sync>>

JoinedRoomsOk ==
    /\ pc = "fetchRooms"
    /\ \E list \in RoomLists : rooms' = list
    /\ pc' = "rangeRooms"
    /\ sent' = <<>>
    /\ console' = Line("Checking server statuses", NoDescription, <<>>)
    /\ ops' = {}
    /\ lastCheck' = NoCheck
    /\ sched' = [started |-> TRUE, waits |-> 0, fails |-> 0]
    /\ trace' = Trace({}, <<"Checking server statuses">>)
    /\ UNCHANGED <<roomID, roomDescription, joined, serverStatus, failedServers,
                   call, sync>>

\* a room loop without the log room test
IsLogRoomNever(r) == FALSE

\* line 132: id.RoomID(roomID) == id.RoomID(config.LogRoom)
IsLogRoom(r) == r = LogRoom

\* lines 130-135: the next room is the log room, which is skipped
SkipLogRoom ==
    /\ pc = "rangeRooms"
    /\ rooms # <<>>
    /\ IsLogRoom(Head(rooms))
    /\ roomID' = Head(rooms)
    /\ rooms' = Tail(rooms)
    /\ console' = Line("Skipping log room", NoDescription, <<>>)
    /\ trace' = Trace({}, <<"Skipping log room">>)
    /\ UNCHANGED <<pc, roomDescription, joined, serverStatus, failedServers,
                   sent, ops, lastCheck, sched, call, sync>>

\* room details that give up the alias as soon as the title lookup fails
getRoomDetailsTitleFirst(r, nameRes, aliasRes) ==
    [alias |-> IF nameRes = "value" /\ aliasRes = "value" THEN "#alias" ELSE r,
     title |-> IF nameRes = "value" THEN "Title" ELSE "(unknown title)",
     id |-> r]

\* getRoomDetails(ctx, client, roomID), lines 196-219
getRoomDetails(r, nameRes, aliasRes) ==
    [alias |-> IF aliasRes = "value" THEN "#alias" ELSE r,
     title |-> IF nameRes = "value" THEN "Title" ELSE "(unknown title)",
     id |-> r]

\* what getRoomDetails and line 142 meet and print: a failed title lookup
\* prints nothing, a failed or empty alias lookup prints line 213
DetailsTrace(nameRes, aliasRes) ==
    Trace((IF nameRes = "error" THEN {"room title"} ELSE {})
              \cup (IF aliasRes = "error" THEN {"room alias"} ELSE {}),
          (IF aliasRes # "value" THEN <<"No canonical alias found">> ELSE <<>>)
              \o <<"Testing servers in room">>)

\* lines 130-142: the next room is not the log room; its details are fetched
EnterRoom ==
    /\ pc = "rangeRooms"
    /\ rooms # <<>>
    /\ ~IsLogRoom(Head(rooms))
    /\ roomID' = Head(rooms)
    /\ rooms' = Tail(rooms)
    /\ \E nameRes \in StateEventOutcomes, aliasRes \in StateEventOutcomes :
          /\ roomDescription' = getRoomDetails(Head(rooms), nameRes, aliasRes)
          /\ console' = Line("Testing servers in room",
                             getRoomDetails(Head(rooms), nameRes, aliasRes), <<>>)
          /\ trace' = DetailsTrace(nameRes, aliasRes)
    /\ ops' = ops \cup {[room |-> Head(rooms), op |-> "details"]}
    /\ pc' = "members"
    /\ UNCHANGED <<joined, serverStatus, failedServers, sent, lastCheck, sched,
                   call, sync>>

\* a failed member fetch that gives up the rest of the cycle
JoinedMembersFailsEndsCycle ==
    /\ pc = "members"
    /\ ops' = ops \cup {[room |-> roomID, op |-> "members"]}
    /\ pc' = "sleep"
    /\ rooms' = <<>>
    /\ roomDescription' = NoDescription
    /\ console' = Line("Failed to get joined members", NoDescription, <<>>)
    /\ trace' = Trace({"member list"}, <<"Failed to get joined members">>)
    /\ UNCHANGED <<roomID, joined, serverStatus, failedServers, sent,
                   lastCheck, sched, call, sync>>

\* lines 145-149: client.JoinedMembers fails and the room is given up
JoinedMembersFails ==
    /\ pc = "members"
    /\ ops' = ops \cup {[room |-> roomID, op |-> "members"]}
    /\ pc' = "rangeRooms"
    /\ roomDescription' = NoDescription
    /\ console' = Line("Failed to get joined members", NoDescription, <<>>)
    /\ trace' = Trace({"member list"}, <<"Failed to get joined members">>)
    /\ UNCHANGED <<rooms, roomID, joined, serverStatus, failedServers, sent,
                   lastCheck, sched, call, sync>>

\* lines 145-153: client.JoinedMembers answers; both lists start empty
JoinedMembersOk ==
    /\ pc = "members"
    /\ ops' = ops \cup {[room |-> roomID, op |-> "members"],
                        [room |-> roomID, op |-> "memberlist"]}
    /\ \E m \in MemberSets : joined' = m
    /\ serverStatus' = <<>>
    /\ failedServers' = <<>>
    /\ pc' = "rangeMembers"
    /\ trace' = NoTrace
    /\ UNCHANGED <<rooms, roomID, roomDescription, sent, console,
                   lastCheck, sched, call, sync>>

\* the calls one checkServer makes for a room, as entries of ops
CheckOps(r, res) ==
    {[room |-> r, op |-> "resolve"]}
        \cup (IF res.probed # <<>> THEN {[room |-> r, op |-> "probe"]} ELSE {})

\* a member loop in which a failure sticks: once a domain of the room has
\* failed, every later domain of the room is reported as failed
CheckMemberSticky ==
    /\ pc = "rangeMembers"
    /\ joined # {}
    /\ \E userID \in joined :
        LET server == extractDomain(userID) IN
        \E wk \in SweepWk(server), srv \in SweepSrv, pr \in SweepProbe :
            LET own == checkServer(server, wk, srv, pr)
                res == IF failedServers = <<>> THEN own
                       ELSE [own EXCEPT !.status = StatusUnreachable] IN
            /\ joined' = joined \ {userID}
            /\ serverStatus' = Append(serverStatus, StatusLine(server, res.status))
            /\ failedServers' =
                  IF HasPrefixFailed(res.status)
                  THEN Append(failedServers, StatusLine(server, res.status))
                  ELSE failedServers
            /\ ops' = ops \cup CheckOps(roomID, res)
            /\ console' = IF res.status = StatusOKText THEN console
                          ELSE Line(ProbeComplaint(pr), NoDescription, <<>>)
            /\ trace' = IF res.status = StatusOKText THEN NoTrace
                        ELSE Trace({"probe"}, <<ProbeComplaint(pr)>>)
            /\ lastCheck' = [room |-> roomID, user |-> userID, server |-> server,
                             status |-> res.status, calls |-> res.resolve.calls,
                             target |-> res.resolve.target, probed |-> res.probed,
                             wk |-> wk, srv |-> srv, pr |-> pr]
    /\ UNCHANGED <<pc, rooms, roomID, roomDescription, sent, sched, call, sync>>

\* lines 155-166: one pass of the member loop; Go ranges over the map
\* resp.Joined in an unspecified order
CheckMember ==
    /\ pc = "rangeMembers"
    /\ joined # {}
    /\ \E userID \in joined :
        LET server == extractDomain(userID) IN
        \E wk \in SweepWk(server), srv \in SweepSrv, pr \in SweepProbe :
            LET res == checkServer(server, wk, srv, pr) IN
            /\ joined' = joined \ {userID}
            /\ serverStatus' = Append(serverStatus, StatusLine(server, res.status))
            /\ failedServers' =
                  IF HasPrefixFailed(res.status)
                  THEN Append(failedServers, StatusLine(server, res.status))
                  ELSE failedServers
            /\ ops' = ops \cup CheckOps(roomID, res)
            /\ console' = IF res.status = StatusOKText THEN console
                          ELSE Line(ProbeComplaint(pr), NoDescription, <<>>)
            /\ trace' = IF res.status = StatusOKText THEN NoTrace
                        ELSE Trace({"probe"}, <<ProbeComplaint(pr)>>)
            /\ lastCheck' = [room |-> roomID, user |-> userID, server |-> server,
                             status |-> res.status, calls |-> res.resolve.calls,
                             target |-> res.resolve.target, probed |-> res.probed,
                             wk |-> wk, srv |-> srv, pr |-> pr]
    /\ UNCHANGED <<pc, rooms, roomID, roomDescription, sent, sched, call, sync>>

\* line 89 inside a pass of the member loop: http.Get uses
\* http.DefaultClient, which has no Timeout; when the server accepts the
\* connection and never answers, the call does not return.  (The URL of the
\* empty domain has no host and fails at once.)
CheckMemberBlocks ==
    /\ pc = "rangeMembers"
    /\ \E userID \in joined :
        /\ extractDomain(userID) # EmptyStr
        /\ lastCheck' = [room |-> roomID, user |-> userID,
                         server |-> extractDomain(userID), status |-> "",
                         calls |-> <<"wellknown">>, target |-> EmptyStr,
                         probed |-> <<>>, wk |-> WkErr, srv |-> NoSrv,
                         pr |-> NoProbe]
    /\ pc' = "blocked"
    /\ ops' = ops \cup {[room |-> roomID, op |-> "resolve"]}
    /\ trace' = NoTrace
    /\ UNCHANGED <<rooms, roomID, roomDescription, joined, serverStatus,
                   failedServers, sent, console, sched, call, sync>>

\* a report that takes the failure branch whatever the failed list holds
ReportMessageAlwaysFailed(desc, failed) ==
    [to |-> LogRoom, kind |-> "Failed servers in room", room |-> desc,
     lines |-> failed]

\* lines 173-180: the one text handed to sendMessageToRoom for the room
ReportMessage(desc, failed) ==
    IF Len(failed) > 0
    THEN [to |-> LogRoom, kind |-> "Failed servers in room", room |-> desc,
          lines |-> failed]
    ELSE [to |-> LogRoom, kind |-> "All Servers in room are OK", room |-> desc,
          lines |-> <<>>]

\* a loop that stops when the report cannot be delivered
AfterSendHalts(delivered) == IF delivered THEN "rangeRooms" ELSE "halted"

\* lines 175 and 179: the value sendMessageToRoom returns is not looked at;
\* the body of the room loop ends and the next room is taken
AfterSend(delivered) == "rangeRooms"

\* lines 168-181: the member loop is over; the full status list is printed
\* and the report is sent to the log room; the variables of the room's pass
\* go out of scope.  client.SendText may fail: sendMessageToRoom returns the
\* error and the loop drops it, printing nothing.
Report ==
    /\ pc = "rangeMembers"
    /\ joined = {}
    /\ console' = Line("Server statuses in room", roomDescription, serverStatus)
    /\ sent' = Append(sent, ReportMessage(roomDescription, failedServers))
    /\ \E delivered \in BOOLEAN :
          /\ ops' = IF delivered THEN ops
                    ELSE ops \cup {[room |-> roomID, op |-> "sendError"]}
          /\ trace' = Trace(IF delivered THEN {} ELSE {"send"},
                            <<"Server statuses in room">>)
          /\ pc' = AfterSend(delivered)
    /\ roomDescription' = NoDescription
    /\ serverStatus' = <<>>
    /\ failedServers' = <<>>
    /\ lastCheck' = NoCheck
    /\ UNCHANGED <<rooms, roomID, joined, sched, call, sync>>

\* the end of a sweep without the sleep: the next fetch follows at once
EndOfRoomsNoSleep ==
    /\ pc = "rangeRooms"
    /\ rooms = <<>>
    /\ pc' = "fetchRooms"
    /\ roomID' = ""
    /\ console' = Line("Waiting", NoDescription, <<>>)
    /\ trace' = Trace({}, <<"Waiting">>)
    /\ UNCHANGED <<rooms, roomDescription, joined, serverStatus, failedServers,
                   sent, ops, lastCheck, sched, call, sync>>

\* lines 183-184: every room has been ranged over
EndOfRooms ==
    /\ pc = "rangeRooms"
    /\ rooms = <<>>
    /\ pc' = "sleep"
    /\ roomID' = ""
    /\ console' = Line("Waiting", NoDescription, <<>>)
    /\ trace' = Trace({}, <<"Waiting">>)
    /\ UNCHANGED <<rooms, roomDescription, joined, serverStatus, failedServers,
                   sent, ops, lastCheck, sched, call, sync>>

\* lines 125 and 187: time.Sleep(config.Interval), then the next cycle
Sleep ==
    /\ pc = "sleep"
    /\ pc' = "fetchRooms"
    /\ sched' = [sched EXCEPT !.waits = sched.waits + 1]
    /\ trace' = NoTrace
    /\ UNCHANGED <<rooms, roomID, roomDescription, joined, serverStatus,
                   failedServers, sent, console, ops, lastCheck, call, sync>>

Next ==
    \/ JoinedRoomsFails
    \/ JoinedRoomsOk
    \/ SkipLogRoom
    \/ EnterRoom
    \/ JoinedMembersFails
    \/ JoinedMembersOk
    \/ CheckMember
    \/ CheckMemberBlocks
    \/ Report
    \/ EndOfRooms
    \/ Sleep

Spec == Init /\ [][Next]_vars


-----------------------------------------------------------------------------
(* Single calls of the functions, over all their inputs *)

\* the state of runServerCheckLoop while a single function is under test
Idle ==
    /\ pc = "call"
    /\ rooms = <<>>
    /\ roomID = ""
    /\ roomDescription = NoDescription
    /\ joined = {}
    /\ serverStatus = <<>>
    /\ failedServers = <<>>
    /\ sent = <<>>
    /\ console = Line("Starting", NoDescription, <<>>)
    /\ ops = {}
    /\ lastCheck = NoCheck
    /\ sched = NoSched
    /\ trace = NoTrace

Pending(fn, arg) == [fn |-> fn, arg |-> arg, done |-> FALSE, ret |-> <<>>]

Returned(c, ret) == [c EXCEPT !.done = TRUE, !.ret = ret]

\* the characters of the user identifiers that are enumerated
IDChars == {"u", ":", "8"}

InitExtract ==
    /\ Idle
    /\ sync = NoSync
    /\ \E u \in SeqsUpTo(IDChars, MaxLen) : call = Pending("extractDomain", u)

CallExtract ==
    /\ call.fn = "extractDomain"
    /\ ~call.done
    /\ call' = Returned(call, extractDomain(call.arg))
    /\ UNCHANGED <<loopVars, sync>>

SpecExtract == InitExtract /\ [][CallExtract]_vars

\* probe outcomes of the checkServer calls under test: one that passes and
\* one that fails
CheckProbes ==
    {pr \in ProbeResponses :
        /\ ~pr.body.trailing
        /\ \/ pr.conn = "refused"
           \/ pr.seconds < ProbeTimeout /\ pr.body.kind = "object"}

InitCheckServer ==
    /\ Idle
    /\ sync = NoSync
    /\ \E server \in Domains, wk \in WkResponses, srv \in SrvResponses,
          pr \in CheckProbes :
            call = Pending("checkServer",
                           [server |-> server, wk |-> wk, srv |-> srv, pr |-> pr])

CallCheckServer ==
    /\ call.fn = "checkServer"
    /\ ~call.done
    /\ call' = Returned(call, checkServer(call.arg.server, call.arg.wk,
                                          call.arg.srv, call.arg.pr))
    /\ UNCHANGED <<loopVars, sync>>

SpecCheckServer == InitCheckServer /\ [][CallCheckServer]_vars

\* the targets handed to the prober
ProbeTargets == {DefaultTarget(<<"g">>), <<"m">>, <<":", "4", "4", "3">>}

InitProbe ==
    /\ Idle
    /\ sync = NoSync
    /\ \E server \in ProbeTargets, pr \in ProbeResponses :
            call = Pending("checkServerOnline", [server |-> server, pr |-> pr])

CallProbe ==
    /\ call.fn = "checkServerOnline"
    /\ ~call.done
    /\ call' = Returned(call, checkServerOnline(call.arg.server, call.arg.pr))
    /\ UNCHANGED <<loopVars, sync>>

SpecProbe == InitProbe /\ [][CallProbe]_vars


-----------------------------------------------------------------------------
(* Claims about resolveMatrixServer and checkServer, under SpecCheckServer *)

\* ---- the sync-based main: membership handler and sync loop ----

\* seconds slept before client.Sync is called again
SyncRetrySeconds == 5

\* the characters a localpart may hold (id.ValidateUserLocalpart), of those
\* that are enumerated
LocalpartChars == {"a", "0", "_"}

\* userID.ParseAndValidate(): the identifier starts with "@", has a ":", and
\* its localpart, the text between them, is not empty and holds allowed
\* characters only
ParseAndValidate(u) ==
    IF Len(u) = 0 \/ Head(u) # "@" \/ IndexOf(u, ":") = 0 THEN "invalid user id"
    ELSE LET localpart == SubSeq(u, 2, IndexOf(u, ":") - 1) IN
         IF localpart = <<>> THEN "empty localpart"
         ELSE IF \E i \in 1..Len(localpart) : localpart[i] \notin LocalpartChars
         THEN "noncompliant localpart"
         ELSE Nil

\* the identifiers carried by the membership events that are enumerated
SyncUserIDs ==
    {<<>>, <<"@", "a", ":", "g">>, <<"a", ":", "g">>, <<"@", "a">>,
     <<"@", "A", ":", "g">>, <<"@", ":", "g">>}

SyncMemberships == {"join", "leave", "invite"}

\* the m.room.member events a sync may deliver
SyncEvents ==
    {[sender |-> s, stateKey |-> k, membership |-> m] :
        s \in SyncUserIDs,
        k \in {NoStateKey} \cup {StateKey(u) : u \in SyncUserIDs},
        m \in SyncMemberships}

\* a handler that does not look at the state key
HandlesRoomAnyStateKey(ev) ==
    IF ParseAndValidate(ev.sender) # Nil THEN FALSE
    ELSE ev.membership = "join"

\* the membership handler, lines 75-100: whether it gets to call handleRoom
HandlesRoom(ev) ==
    IF ParseAndValidate(ev.sender) # Nil THEN FALSE
    ELSE IF ev.stateKey.present /\ ParseAndValidate(ev.stateKey.key) # Nil
    THEN FALSE
    ELSE ev.membership = "join"

InitSync ==
    /\ Idle
    /\ call = NoCall
    /\ sync = [NoSync EXCEPT !.pc = "sync"]

\* inside client.Sync(), line 105: a membership event is dispatched to the
\* handler of lines 75-100
SyncDeliver ==
    /\ sync.pc = "sync"
    /\ \E ev \in SyncEvents :
          sync' = [sync EXCEPT !.event = ev, !.called = HandlesRoom(ev)]
    /\ UNCHANGED <<loopVars, call>>

\* lines 105-108: client.Sync() returns an error
SyncFails ==
    /\ sync.pc = "sync"
    /\ sync.fails < MaxSyncFails
    /\ sync' = [sync EXCEPT !.pc = "retrySleep", !.fails = sync.fails + 1,
                            !.last = "error", !.slept = 0]
    /\ UNCHANGED <<loopVars, call>>

\* line 109: time.Sleep(5 * time.Second), then the next pass of the loop
SyncRetrySleep ==
    /\ sync.pc = "retrySleep"
    /\ sync' = [sync EXCEPT !.pc = "sync", !.slept = sync.slept + SyncRetrySeconds]
    /\ UNCHANGED <<loopVars, call>>

\* lines 110-113: client.Sync() returns nil; the loop is left and main returns
SyncReturns ==
    /\ sync.pc = "sync"
    /\ sync' = [sync EXCEPT !.pc = "done", !.last = "nil"]
    /\ UNCHANGED <<loopVars, call>>

NextSync ==
    \/ SyncDeliver
    \/ SyncFails
    \/ SyncRetrySleep
    \/ SyncReturns

SpecSync == InitSync /\ [][NextSync]_vars

\* the call of checkServer under test has returned
CheckDone == call.fn = "checkServer" /\ call.done

\* the body is one JSON object whose "m.server" is a non-empty string
HasServerString(wk) ==
    /\ ~wk.err
    /\ wk.body.kind = "object"
    /\ ~wk.body.trailing
    /\ wk.body.mserver.t = "string"
    /\ wk.body.mserver.s # EmptyStr

\* the resolver returned the well-known string and made no other lookup
ReturnsWellKnown(c) ==
    /\ c.ret.resolve.target = c.arg.wk.body.mserver.s
    /\ c.ret.resolve.calls = <<"wellknown">>
    /\ c.ret.resolve.via = "wellknown"

\* C1 as stated: whenever the well-known answer has a success status (any
\* 2xx) and a valid JSON body with a non-empty m.server string, the resolver
\* returns that string unchanged and neither queries SRV nor uses the default.
C1_AnySuccessStatus ==
    CheckDone /\ HasServerString(call.arg.wk)
              /\ call.arg.wk.status \in 200..299
        => ReturnsWellKnown(call)

\* C1 amended: whenever the well-known answer has status 200 and a valid JSON
\* body with a non-empty m.server string, the resolver returns that string
\* unchanged and neither queries SRV nor uses the default.
C1_WellKnownWins ==
    CheckDone /\ HasServerString(call.arg.wk)
              /\ call.arg.wk.status = 200
        => ReturnsWellKnown(call)

\* a well-known string with a port is returned as it is although the SRV
\* lookup would have answered with a record
C1_Witness ==
    /\ CheckDone
    /\ call.arg.wk.status = 200
    /\ HasServerString(call.arg.wk)
    /\ call.arg.wk.body.mserver.s = <<"m", ":", "4">>
    /\ ~call.arg.srv.err
    /\ Len(call.arg.srv.records) = 2
    /\ call.ret.resolve.target = <<"m", ":", "4">>

\* the well-known step gives no target: a network error, a status other than
\* 200, a body that is no JSON object, or no non-empty m.server string in it
NoWellKnownTarget(wk) ==
    \/ wk.err
    \/ wk.status # 200
    \/ wk.body.kind # "object"
    \/ wk.body.mserver.t # "string"
    \/ wk.body.mserver.s = EmptyStr

\* s without its trailing dot, if it has one
StripTrailingDot(s) ==
    IF Len(s) > 0 /\ s[Len(s)] = "." THEN SubSeq(s, 1, Len(s) - 1) ELSE s

\* the decimal text of the ports that are enumerated
PortText(p) == IF p = 443 THEN <<"4", "4", "3">> ELSE <<"8", "4", "4", "8">>

C3_ResolverNeverFails ==
    CheckDone =>
        /\ call.ret.resolve.err = Nil
        /\ Len(call.ret.resolve.target) > 0
        /\ (NoWellKnownTarget(call.arg.wk)
              /\ (call.arg.srv.err \/ Len(call.arg.srv.records) = 0)
            => call.ret.resolve.target
                  = call.arg.server \o <<":", "8", "4", "4", "8">>)
        /\ call.ret.status \in {"OK", "Failed (Unreachable)"}

\* both lookups fail with errors, the default target is probed and found
\* unreachable
C3_Witness ==
    /\ CheckDone
    /\ call.arg.server = <<"g">>
    /\ call.arg.wk.err
    /\ call.arg.srv.err
    /\ call.ret.resolve.target = <<"g", ":", "8", "4", "4", "8">>
    /\ call.ret.probed = <<call.ret.resolve.target>>
    /\ call.ret.status = "Failed (Unreachable)"


-----------------------------------------------------------------------------
(* Claims about extractDomain, under SpecExtract *)

\* everything after the first ":" of s; empty when s has no ":"
AfterFirstColon(s) ==
    IF IndexOf(s, ":") = 0 THEN EmptyStr
    ELSE SubSeq(s, IndexOf(s, ":") + 1, Len(s))

\* C4: extractDomain returns the whole substring after the first ":", later
\* ":" characters included, and the empty string when there is no ":".
C4_SplitsOnFirstColon ==
    call.fn = "extractDomain" /\ call.done => call.ret = AfterFirstColon(call.arg)

-----------------------------------------------------------------------------
(* Claims about checkServerOnline, under SpecProbe *)

\* C5: checkServerOnline returns true exactly when the connection succeeds,
\* the answer arrives within the 5 second timeout and the body is a JSON
\* object; any other body, the literal null included, gives false.
C5_TrueOnlyForObject ==
    call.fn = "checkServerOnline" /\ call.done =>
        (call.ret <=> /\ call.arg.pr.conn = "ok"
                      /\ call.arg.pr.seconds < 5
                      /\ call.arg.pr.body.kind = "object")

-----------------------------------------------------------------------------
(* Claims about runServerCheckLoop, under Spec *)

\* the texts handed to SendText in this cycle that describe room r
SentAbout(r) == {i \in 1..Len(sent) : sent[i].room.id = r}

\* C6: the log room is never swept: no details lookup, no member list fetch,
\* no resolve and no probe is made for it, and no report describes it.
C6_LogRoomNeverSwept ==
    /\ \A o \in ops : o.room # "!log"
    /\ SentAbout("!log") = {}
    /\ roomDescription.id # "!log"
    /\ lastCheck.room # "!log"
    /\ (roomID = "!log" => pc = "rangeRooms" /\ joined = {})

\* the log room was in the joined rooms list after a room that was swept
\* and reported, and the loop has just passed over it
C6_Witness ==
    /\ pc = "rangeRooms"
    /\ roomID = "!log"
    /\ Len(sent) = 1
    /\ rooms = <<"!b">>
    /\ console.kind = "Skipping log room"

\* the rooms whose member list was fetched successfully in this cycle
Fetched == {o.room : o \in {x \in ops : x.op = "memberlist"}}

\* the member loop of room r is still running
InMemberLoop(r) == pc \in {"rangeMembers", "blocked"} /\ roomID = r

\* C7: for every room whose member list was fetched, exactly one text is
\* sent once its member loop is over, to the log room: the failure message
\* iff some checked domain has a status other than OK, else the all-OK
\* message; no text is sent for any other room.
C7_ExactlyOneReport ==
    /\ \A i \in 1..Len(sent) :
          /\ sent[i].to = "!log"
          /\ sent[i].room.id \in Fetched
          /\ sent[i].kind \in {"Failed servers in room", "All Servers in room are OK"}
    /\ \A r \in Fetched :
          Cardinality(SentAbout(r)) = IF InMemberLoop(r) THEN 0 ELSE 1
    /\ (console.kind = "Server statuses in room" =>
          /\ sent # <<>>
          /\ sent[Len(sent)].room = console.room
          /\ (sent[Len(sent)].kind = "Failed servers in room"
                <=> \E i \in 1..Len(console.lines) : console.lines[i].status # "OK")
          /\ (sent[Len(sent)].kind = "All Servers in room are OK"
                <=> \A i \in 1..Len(console.lines) : console.lines[i].status = "OK"))

\* in one cycle a room got the failure message and another the all-OK message
C7_Witness ==
    /\ pc = "sleep"
    /\ Len(sent) = 2
    /\ sent[1].room.id = "!a"
    /\ sent[1].kind = "Failed servers in room"
    /\ sent[2].room.id = "!b"
    /\ sent[2].kind = "All Servers in room are OK"
    /\ console.kind = "Waiting"

\* the lines of a status list whose status is not OK, in their order
NotOK(line) == line.status # "OK"

\* C8: the failure message carries exactly the status lines that are not OK
\* and none that is OK; the full status list is printed only and is never
\* the text that is sent.
C8_OnlyFailedLinesSent ==
    /\ \A i \in 1..Len(sent) :
          /\ \A j \in 1..Len(sent[i].lines) : sent[i].lines[j].status # "OK"
          /\ sent[i].kind # "Server statuses in room"
          /\ (sent[i].kind = "Failed servers in room" => sent[i].lines # <<>>)
    /\ (console.kind = "Server statuses in room" =>
          /\ sent # <<>>
          /\ sent[Len(sent)].lines = SelectSeq(console.lines, NotOK))

\* a room with one reachable and one unreachable domain has been reported:
\* two lines were printed, one line was sent
C8_Witness ==
    /\ console.kind = "Server statuses in room"
    /\ Len(console.lines) = 2
    /\ console.lines[1] = [server |-> <<"g">>, status |-> "OK"]
    /\ console.lines[2].status = "Failed (Unreachable)"
    /\ sent[Len(sent)].kind = "Failed servers in room"
    /\ sent[Len(sent)].lines = <<console.lines[2]>>

\* C9: a member whose identifier has no ":" is skipped: no resolve and no
\* probe is made for it and it adds no line to either list, so no line for
\* the empty domain is ever sent.
C9_EmptyDomainSkipped ==
    /\ (lastCheck.room # "" /\ IndexOf(lastCheck.user, ":") = 0 =>
          lastCheck.calls = <<>> /\ lastCheck.probed = <<>>)
    /\ \A i \in 1..Len(serverStatus) : serverStatus[i].server # EmptyStr
    /\ \A i \in 1..Len(failedServers) : failedServers[i].server # EmptyStr
    /\ \A i \in 1..Len(sent) :
          \A j \in 1..Len(sent[i].lines) : sent[i].lines[j].server # EmptyStr

\* C10: the failed list reported for a room holds no two lines for the same
\* domain, also when several members share the domain.
C10_NoDuplicateDomainLines ==
    \A i \in 1..Len(sent) :
        \A j, k \in 1..Len(sent[i].lines) :
            j # k => sent[i].lines[j].server # sent[i].lines[k].server

\* the positions of runServerCheckLoop: none of them is past the loop
LoopPositions ==
    {"fetchRooms", "rangeRooms", "members", "rangeMembers", "blocked", "sleep"}

\* C11 as stated: every fetch of the joined rooms, the first one included, is
\* preceded by exactly one interval wait.
C11_WaitBeforeEverySweep ==
    /\ pc \in LoopPositions
    /\ (pc = "fetchRooms" => sched.waits = 1)

\* C11: the first fetch of the joined rooms is made at once, with no wait
\* before it; every later fetch is preceded by exactly one interval wait made
\* since the fetch before it; the loop never leaves its positions.
C11_WaitBetweenSweeps ==
    /\ pc \in LoopPositions
    /\ (pc = "fetchRooms" => sched.waits = (IF sched.started THEN 1 ELSE 0))
    /\ (pc # "fetchRooms" => sched.started /\ sched.waits = 0)

\* a sweep has sent a report, printed the waiting line and slept once: the
\* second fetch is about to be made
C11_Witness ==
    /\ pc = "fetchRooms"
    /\ sched.started
    /\ sched.waits = 1
    /\ console.kind = "Waiting"
    /\ sent # <<>>

\* the rooms whose member fetch failed in this cycle
GivenUp == {o.room : o \in {x \in ops : x.op = "members"}} \ Fetched

\* no domain of room r was resolved or probed and no text was sent about r
NothingDoneFor(r) ==
    /\ [room |-> r, op |-> "resolve"] \notin ops
    /\ [room |-> r, op |-> "probe"] \notin ops
    /\ SentAbout(r) = {}

\* the step is a failed member fetch
MemberFetchFails == pc = "members" /\ "member list" \in trace'.errs

\* C12: a failed member fetch gives up that room only: no domain of the room
\* is checked and nothing is sent about it, the rooms still to come stay in
\* the list and the loop goes on with them; the cycle reaches the wait only
\* with every room passed, and the loop never exits.
C12_MemberFailureSkipsOneRoom ==
    /\ [](\A r \in GivenUp : NothingDoneFor(r))
    /\ [](pc \in LoopPositions /\ (pc = "sleep" => rooms = <<>>))
    /\ [][MemberFetchFails =>
            /\ pc' = "rangeRooms"
            /\ rooms' = rooms
            /\ sent' = sent
            /\ sched' = sched]_vars

\* the member fetch of !a failed, then !b was swept and reported, and the
\* cycle has reached its wait
C12_Witness ==
    /\ pc = "sleep"
    /\ "!a" \in GivenUp
    /\ "!b" \in Fetched
    /\ Len(sent) = 1
    /\ sent[1].room.id = "!b"

\* C13: after a failed fetch of the joined rooms no room is processed in that
\* cycle (no room call, no text sent, no room left to range over); the loop
\* sleeps exactly one interval and fetches again, however many fetches have
\* failed in a row, and never exits.
C13_FetchFailureSleepsAndRetries ==
    /\ pc \in LoopPositions
    /\ (sched.fails > 0 =>
          /\ pc \in {"sleep", "fetchRooms"}
          /\ rooms = <<>>
          /\ ops = {}
          /\ sent = <<>>
          /\ console.kind = "Failed to fetch joined rooms"
          /\ sched.waits = (IF pc = "fetchRooms" THEN 1 ELSE 0))

\* two fetches in a row have failed; the loop has slept once since the
\* second failure and is about to fetch a third time
C13_Witness ==
    /\ pc = "fetchRooms"
    /\ sched.fails = 2
    /\ sched.waits = 1
    /\ console.kind = "Failed to fetch joined rooms"

\* the latest step met an error of a room metadata lookup
MetadataError == trace.errs \cap {"room title", "room alias"} # {}

\* the latest step printed line 213
AliasFallbackPrinted ==
    \E i \in 1..Len(trace.lines) : trace.lines[i] = "No canonical alias found"

\* C14: an error of a metadata lookup never ends the sweep of the room: the
\* member fetch comes next.  When the alias lookup fails the alias is the raw
\* room id, when the title lookup fails the title is "(unknown title)", and
\* each fallback is taken on its own lookup's outcome only.
C14_MetadataFallbacks ==
    /\ (roomDescription # NoDescription =>
          /\ roomDescription.id = roomID
          /\ roomDescription.alias \in {"#alias", roomID}
          /\ roomDescription.title \in {"Title", "(unknown title)"})
    /\ (MetadataError =>
          /\ pc = "members"
          /\ [room |-> roomID, op |-> "details"] \in ops
          /\ roomDescription.id = roomID
          /\ ("room title" \in trace.errs =>
                roomDescription.title = "(unknown title)")
          /\ ("room alias" \in trace.errs => roomDescription.alias = roomID)
          /\ (roomDescription.alias = roomID <=> AliasFallbackPrinted))

\* the title lookup of !a failed and its alias lookup answered: the title is
\* the fallback, the alias is the real one, and the member fetch is next
C14_Witness ==
    /\ pc = "members"
    /\ trace.errs = {"room title"}
    /\ roomDescription =
          [alias |-> "#alias", title |-> "(unknown title)", id |-> "!a"]

\* the step is a report whose delivery fails
SendFails == pc = "rangeMembers" /\ "send" \in trace'.errs

\* C15: a report that cannot be delivered does not stop the loop: the step
\* goes on to the next room with the rooms still to come and the schedule
\* untouched, the cycle reaches the wait only with every room passed, and no
\* step leaves the loop.
C15_SendFailureDoesNotHalt ==
    /\ [](pc \in LoopPositions /\ (pc = "sleep" => rooms = <<>>))
    /\ [][SendFails =>
            /\ pc' = "rangeRooms"
            /\ rooms' = rooms
            /\ sched' = sched
            /\ Len(sent') = Len(sent) + 1]_vars

\* the report about !a could not be delivered; !b was swept and reported
\* after it, the loop has slept and is about to fetch the rooms again
C15_Witness ==
    /\ pc = "fetchRooms"
    /\ sched.waits = 1
    /\ [room |-> "!a", op |-> "sendError"] \in ops
    /\ Len(sent) = 2
    /\ sent[2].room.id = "!b"

\* the lines that report an error of each kind to the operator; the title
\* fallback shows in the description printed by line 142
ErrorLines(e) ==
    CASE e = "joined rooms" -> {"Failed to fetch joined rooms"}
      [] e = "member list" -> {"Failed to get joined members"}
      [] e = "room alias" -> {"No canonical alias found"}
      [] e = "room title" -> {"Testing servers in room"}
      [] e = "probe" -> {"Failed to reach server",
                         "Invalid JSON response from server"}
      [] OTHER -> {}

\* C16: every error met during a sweep (joined-rooms fetch, member fetch,
\* metadata lookup, probe, report delivery) is reported by at least one line
\* printed by the step that met it.
C16_EveryErrorTraced ==
    \A e \in trace.errs :
        \E i \in 1..Len(trace.lines) : trace.lines[i] \in ErrorLines(e)

\* C17: every network operation of a check returns within a timeout, so no
\* sweep is ever stuck inside a check: the loop is never at a call that does
\* not return, and every cycle can go on to its wait.
C17_NoCheckStalls == pc # "blocked"

\* C18: a check makes exactly one resolve and then exactly one probe; the
\* probe is made against the target the resolver returned for the checked
\* domain, and a probe that fails is not made again.
C18_OneResolveThenOneProbe ==
    CheckDone =>
        /\ call.ret.steps = <<"resolve", "probe">>
        /\ call.ret.resolve =
              resolveMatrixServer(call.arg.server, call.arg.wk, call.arg.srv)
        /\ call.ret.probed = <<call.ret.resolve.target>>
        /\ (call.ret.status = StatusUnreachable => Len(call.ret.probed) = 1)

\* the domain g was resolved through its SRV record and the probe of the
\* record's target was refused
C18_Witness ==
    /\ CheckDone
    /\ call.arg.server = <<"g">>
    /\ call.ret.resolve.via = "srv"
    /\ call.arg.pr.conn = "refused"
    /\ call.ret.status = StatusUnreachable
    /\ call.ret.probed = <<SrvTarget(call.arg.srv.records[1])>>

\* a check of a member's domain has returned in the running member loop
CheckReturned == lastCheck.room # "" /\ pc = "rangeMembers"

\* the status line the check's own outcomes give: the target from the
\* domain's well-known and SRV answers, the status from the probe of it
OwnLine(c) ==
    StatusLine(c.server,
               IF checkServerOnline(
                      resolveMatrixServer(c.server, c.wk, c.srv).target, c.pr)
               THEN StatusOKText ELSE StatusUnreachable)

\* C19: the status reported for a domain is a function of that domain's own
\* well-known, SRV and probe outcomes and of nothing else in the state of
\* the sweep, and so is the membership of its line in the failed list: two
\* sweeps that agree on those outcomes report the same for the domain,
\* whatever happened to other domains and other rooms.
C19_StatusFromOwnOutcomes ==
    /\ failedServers = SelectSeq(serverStatus, NotOK)
    /\ (CheckReturned =>
          /\ serverStatus # <<>>
          /\ serverStatus[Len(serverStatus)] = OwnLine(lastCheck)
          /\ lastCheck.status = OwnLine(lastCheck).status
          /\ (NotOK(OwnLine(lastCheck)) <=>
                /\ failedServers # <<>>
                /\ failedServers[Len(failedServers)] = OwnLine(lastCheck)))

\* in the second room of a cycle, after a first room whose report went out,
\* a domain of the room failed and the domain checked after it is OK
C19_Witness ==
    /\ CheckReturned
    /\ sent # <<>>
    /\ Len(serverStatus) = 2
    /\ NotOK(serverStatus[1])
    /\ lastCheck.status = StatusOKText
    /\ Len(failedServers) = 1

\* C20: in the sync-based main the loop is left only when client.Sync has
\* returned without error; after every failed Sync, however many in a row,
\* the loop sleeps 5 seconds and calls Sync again.  The membership handler
\* calls handleRoom only for an event whose sender is a valid user id, whose
\* state key, if present, is a valid user id, and whose membership is join.
C20_SyncRetriesAndHandlerFilters ==
    /\ sync.pc \in {"sync", "retrySleep", "done"}
    /\ (sync.pc = "done" <=> sync.last = "nil")
    /\ (sync.pc = "retrySleep" => sync.last = "error" /\ sync.slept = 0)
    /\ (sync.pc = "sync" /\ sync.fails > 0 =>
          sync.last = "error" /\ sync.slept = SyncRetrySeconds)
    /\ (sync.called =>
          /\ ParseAndValidate(sync.event.sender) = Nil
          /\ (sync.event.stateKey.present =>
                ParseAndValidate(sync.event.stateKey.key) = Nil)
          /\ sync.event.membership = "join")

\* Sync failed twice and was called again after each 5 second sleep; the
\* third call delivered a join event with valid sender and state key, which
\* was handled, and then returned without error
C20_Witness ==
    /\ sync.pc = "done"
    /\ sync.fails = 2
    /\ sync.called
    /\ sync.event.stateKey.present

=============================================================================
